---- MODULE Spec2Model ----
(***************************************************************************)
(* A model of src/x11.rs: the X11 backend of swbuf.  X11Impl::set_buffer   *)
(* first tries shm_set (the MIT-SHM path, which keeps one System V shared  *)
(* memory segment in ShmExtension::shmseg) and, when that returns Err,     *)
(* runs fallback_set (XCreateImage / XPutImage / XDestroyImage).           *)
(*                                                                         *)
(* Every call the code makes into libc or Xlib is one step of the model,   *)
(* and the value the callee returns is chosen nondeterministically among   *)
(* the values that callee can return.  The kernel's view of the System V   *)
(* segments (ipc, attached) is part of the state, so that leaks and double *)
(* releases are visible: ipc[id + 1].data is what the segment's memory     *)
(* holds, None until something is written to it.                           *)
(***************************************************************************)
EXTENDS Integers, Sequences, FiniteSets

(***************************************************************************)
(* Bounds of the model.                                                    *)
(***************************************************************************)
\* shmget succeeds at most MaxIds times (afterwards it fails, as with ENOSPC)
MaxIds == 3

\* the (width, height) pairs handed to set_buffer, both u16: a zero width, a
\* zero height, three frames of growing size, a width whose stride leaves
\* u16, and the largest frame there is
Frames == { << 0, 10 >>, << 10, 0 >>, << 5, 5 >>, << 10, 10 >>, << 20, 20 >>,
            << 16384, 1 >>, << 65535, 65535 >> }

(***************************************************************************)
(* Values.                                                                 *)
(***************************************************************************)
\* Option<T>: None is the empty sequence, Some(x) the sequence <<x>>
None == << >>
Some(x) == << x >>

\* the null pointer (std::ptr::null_mut, and what NonNull::new rejects)
NULL == 0
\* (void *) -1, what shmat returns when it fails
MAP_FAILED == -1
\* the address at which the kernel maps segment id (never NULL)
AddrOf(id) == 4096 * (id + 1)
\* the XImage Xlib allocates in the n-th image call of a set_buffer
ImageOf(n) == 64 * (n + 1)

\* u16::MAX + 1
U16_MODULUS == 65536

(***************************************************************************)
(* usize.  TLC's integers end at 2^31 - 1 and width * height * 4 reaches   *)
(* 2^34, so a usize n is kept as two limbs <<hi, lo>> with                 *)
(* n = hi * 2^16 + lo and 0 <= lo < 2^16.                                  *)
(***************************************************************************)
Usize(n) == << n \div U16_MODULUS, n % U16_MODULUS >>

\* x * m in unbounded arithmetic, for a multiplier m < 2^16: the multiplier
\* is taken a byte at a time, so that no intermediate product reaches 2^31
UsizeMulWide(x, m) ==
    LET low  == x[2] * (m % 256)
        high == x[2] * (m \div 256)
        lo   == low + (high % 256) * 256
    IN  << x[1] * m + (high \div 256) + (lo \div U16_MODULUS),
           lo % U16_MODULUS >>

\* whether the unbounded value x fits a usize of the given number of bits;
\* the model's values stay below 2^34
UsizeFits(x, bits) == bits >= 64 \/ x[1] < U16_MODULUS

\* usize::checked_mul
checked_mul(x, m, bits) ==
    LET p == UsizeMulWide(x, m)
    IN  IF UsizeFits(p, bits) THEN Some(p) ELSE None

\* x < y on usize
UsizeLt(x, y) == x[1] < y[1] \/ (x[1] = y[1] /\ x[2] < y[2])
UsizeLe(x, y) == ~UsizeLt(y, x)


\* u16 multiplication: None where it overflows and the build checks overflow
\* (it panics), the wrapped product where the build does not
u16_mul(a, b, checks) ==
    IF a * b < U16_MODULUS THEN Some(a * b)
    ELSE IF checks THEN None
    ELSE Some((a * b) % U16_MODULUS)

(***************************************************************************)
(* State.                                                                  *)
(***************************************************************************)
VARIABLES
    handles,         \* X11Impl's window_handle, display_handle, gc, visual, depth
    xshm,            \* X11Impl::xshm is Some (TRUE) or None (FALSE)
    shmseg,          \* ShmExtension::shmseg: None or Some([id, ptr, size])
    usize_bits,      \* the width of usize on the build's target: 32 or 64
    overflow_checks, \* whether the build panics on integer overflow
    pc,              \* the statement the program is at
    call,            \* the running set_buffer: None or Some([buffer, width, height])
    loc,             \* the local variables of the running call
    shm_result,      \* what shm_set returned: "Ok", "Err", or "" before that
    ipc,             \* the kernel's segments: ipc[id + 1] = [size, data, rmid,
                     \* xserver], xserver being whether the X server has the
                     \* segment attached
    attached,        \* the addresses at which this process has a segment mapped
    trace,           \* the library calls of the running operation, in order
    entry,           \* shmseg as it was when the running operation began
    prev,            \* the preceding set_buffer: None or Some([size, denied]),
                     \* its frame size and whether its ShmSegment::new failed
    denied,          \* whether ShmSegment::new has ever returned Err to this engine
    high_water       \* the largest size a shm_set has computed: None or Some(size)

vars == << handles, xshm, shmseg, usize_bits, overflow_checks, pc, call, loc, shm_result,
           ipc, attached, trace, entry, prev, denied, high_water >>

build == << handles, xshm, usize_bits, overflow_checks >>
kernel == << ipc, attached >>
history == << entry, prev, denied, high_water >>

\* ShmSegment { id, ptr, size }
ShmSegment(id, ptr, size) == [id |-> id, ptr |-> ptr, size |-> size]

\* the locals of a call that has not assigned any yet
NoLocals == [shmseg_size |-> Usize(0), id |-> -1, newseg |-> None, image |-> NULL]

\* the arguments of the running set_buffer
Args == call[1]

\* one library call: its name, its integer arguments, what it returned
Called(name, arg, ret) == [call |-> name, arg |-> arg, ret |-> ret]

\* the ids whose segment exists in the kernel: allocated, IPC_RMID not yet called
Live == { i \in 1..Len(ipc) : ipc[i].rmid = 0 }

\* width * height * 4 as a mathematical integer
FrameSize(width, height) == UsizeMulWide(UsizeMulWide(Usize(width), height), 4)

\* the buffers a caller may pass with (width, height): one of width * height
\* pixels, and one of a single pixel
Buffers(width, height) == { UsizeMulWide(Usize(width), height), Usize(1) }

(***************************************************************************)
(* X11Impl::new.  The handles (checked non-null, non-zero), gc, visual and *)
(* depth are opaque values to the code that follows; xshm is Some when     *)
(* XShm::open and XShmQueryExtension both succeed, and its shmseg starts   *)
(* as None.                                                                *)
(***************************************************************************)
Init ==
    /\ handles = [window_handle |-> 1, display_handle |-> 1, gc |-> 1,
                  visual |-> 1, depth |-> 24]
    /\ xshm \in BOOLEAN
    /\ shmseg = None
    /\ usize_bits \in {32, 64}
    /\ overflow_checks \in BOOLEAN
    /\ pc = "idle"
    /\ call = None
    /\ loc = NoLocals
    /\ shm_result = ""
    /\ ipc = << >>
    /\ attached = {}
    /\ trace = << >>
    /\ entry = None
    /\ prev = None
    /\ denied = FALSE
    /\ high_water = None

(***************************************************************************)
(* set_buffer, line 124: the caller enters with (buffer, width, height).   *)
(***************************************************************************)
set_buffer ==
    /\ pc = "idle"
    /\ \E frame \in Frames :
         \E buffer \in Buffers(frame[1], frame[2]) :
            call' = Some([buffer |-> buffer, width |-> frame[1],
                          height |-> frame[2]])
    /\ pc' = "shm_set"
    /\ loc' = NoLocals
    /\ shm_result' = ""
    /\ trace' = << >>
    /\ entry' = shmseg
    /\ UNCHANGED << build, shmseg, kernel, prev, denied, high_water >>

\* shm_set_xshm as it would be if the engine took the extension for present
\* whatever the probe said
shm_set_xshm_unprobed ==
    /\ pc = "shm_set"
    /\ pc' = "shmseg_size"
    /\ UNCHANGED << build, shmseg, call, loc, shm_result, kernel, trace, history >>

(***************************************************************************)
(* shm_set, lines 132-135: without the extension, return Err.              *)
(***************************************************************************)
shm_set_xshm ==
    /\ pc = "shm_set"
    /\ IF xshm
       THEN /\ pc' = "shmseg_size"
            /\ UNCHANGED shm_result
       ELSE /\ pc' = "is_err"
            /\ shm_result' = "Err"
    /\ UNCHANGED << build, shmseg, call, loc, kernel, trace, history >>

(***************************************************************************)
(* shm_set, lines 138-141: width * height * 4 with checked_mul; expect     *)
(* panics on overflow.                                                     *)
(***************************************************************************)
shmseg_size_of(width, height, bits) ==
    LET size == checked_mul(Usize(width), height, bits)
    IN  IF size = None THEN None ELSE checked_mul(size[1], 4, bits)

Max(x, y) == IF UsizeLt(x, y) THEN y ELSE x

shm_set_size ==
    /\ pc = "shmseg_size"
    /\ LET size == shmseg_size_of(Args.width, Args.height, usize_bits)
       IN  IF size = None
           THEN /\ pc' = "panicked"
                /\ UNCHANGED << loc, high_water >>
           ELSE /\ pc' = "match_shmseg"
                /\ loc' = [loc EXCEPT !.shmseg_size = size[1]]
                /\ high_water' = IF high_water = None THEN size
                                 ELSE Some(Max(high_water[1], size[1]))
    /\ UNCHANGED << build, shmseg, call, shm_result, kernel, trace,
                    entry, prev, denied >>

(***************************************************************************)
(* shm_set, lines 144-150: a new segment is made when none is held or the  *)
(* held one is smaller than shmseg_size; otherwise the held one is used.   *)
(***************************************************************************)
\* needs_new_segment as it would be with <= for <, with != for <, and
\* without the comparison of sizes
needs_new_segment_le(seg, size) ==
    \/ seg = None
    \/ UsizeLe(seg[1].size, size)

needs_new_segment_ne(seg, size) ==
    \/ seg = None
    \/ seg[1].size # size

needs_new_segment_none(seg, size) == seg = None

needs_new_segment(seg, size) ==
    \/ seg = None
    \/ UsizeLt(seg[1].size, size)

\* shm_set_match as it would be if the held segment were taken out of shmseg
\* before the new one is allocated
shm_set_match_take ==
    /\ pc = "match_shmseg"
    /\ IF needs_new_segment(shmseg, loc.shmseg_size)
       THEN pc' = "shmget" /\ shmseg' = None
       ELSE pc' = "XShmCreateImage" /\ UNCHANGED shmseg
    /\ UNCHANGED << build, call, loc, shm_result, kernel, trace, history >>

shm_set_match ==
    /\ pc = "match_shmseg"
    /\ pc' = IF needs_new_segment(shmseg, loc.shmseg_size)
             THEN "shmget" ELSE "XShmCreateImage"
    /\ UNCHANGED << build, shmseg, call, loc, shm_result, kernel, trace, history >>

(***************************************************************************)
(* ShmSegment::new, lines 209-212: shmget(IPC_PRIVATE, size, 0o600).  The  *)
(* kernel answers -1 or a fresh id; it refuses a size of 0 (size < SHMMIN, *)
(* EINVAL) and, in this model, every request after MaxIds segments.  The   *)
(* error leaves shm_set through the ? operator.                            *)
(***************************************************************************)
shmget(size) ==
    IF size = Usize(0) \/ Len(ipc) >= MaxIds THEN {-1} ELSE {-1, Len(ipc)}

\* ShmSegment_new_shmget as it would be if a denied shmget made the engine
\* give the extension up for good
ShmSegment_new_shmget_disabling ==
    /\ pc = "shmget"
    /\ \E id \in shmget(loc.shmseg_size) :
         /\ trace' = Append(trace, Called("shmget", loc.shmseg_size, id))
         /\ IF id = -1
            THEN /\ shm_result' = "Err"
                 /\ pc' = "is_err"
                 /\ denied' = TRUE
                 /\ xshm' = FALSE
                 /\ UNCHANGED << loc, ipc >>
            ELSE /\ ipc' = Append(ipc, [size |-> loc.shmseg_size, data |-> None,
                                        rmid |-> 0, xserver |-> FALSE])
                 /\ loc' = [loc EXCEPT !.id = id]
                 /\ pc' = "shmat"
                 /\ UNCHANGED << xshm, shm_result, denied >>
    /\ UNCHANGED << handles, usize_bits, overflow_checks, shmseg, call,
                    attached, entry, prev, high_water >>

ShmSegment_new_shmget ==
    /\ pc = "shmget"
    /\ \E id \in shmget(loc.shmseg_size) :
         /\ trace' = Append(trace, Called("shmget", loc.shmseg_size, id))
         /\ IF id = -1
            THEN /\ shm_result' = "Err"
                 /\ pc' = "is_err"
                 /\ denied' = TRUE
                 /\ UNCHANGED << loc, ipc >>
            ELSE /\ ipc' = Append(ipc, [size |-> loc.shmseg_size, data |-> None,
                                        rmid |-> 0, xserver |-> FALSE])
                 /\ loc' = [loc EXCEPT !.id = id]
                 /\ pc' = "shmat"
                 /\ UNCHANGED << shm_result, denied >>
    /\ UNCHANGED << build, shmseg, call, attached, entry, prev, high_water >>

(***************************************************************************)
(* ShmSegment::new, lines 215-229: shmat(id, null, 0), which returns the   *)
(* address of the mapping or the pointer -1.  NonNull::new turns a null    *)
(* pointer into None: then the id is removed and the error returned.       *)
(* Otherwise the segment value is built.                                   *)
(***************************************************************************)
shmat(id) == { AddrOf(id), MAP_FAILED }

NonNull_new(ptr) == IF ptr = NULL THEN None ELSE Some(ptr)

\* shmctl(id, IPC_RMID, null) on the kernel's table: the segment is destroyed
\* (its size is forgotten) and the call is counted
shmctl_rmid(table, id) ==
    [table EXCEPT ![id + 1] = [size |-> Usize(0), data |-> None,
                               rmid |-> table[id + 1].rmid + 1,
                               xserver |-> table[id + 1].xserver]]

ShmSegment_new_shmat ==
    /\ pc = "shmat"
    /\ \E addr \in shmat(loc.id) :
         LET ptr == NonNull_new(addr)
             mapped == Append(trace, Called("shmat", << loc.id >>, addr))
         IN  /\ attached' = IF addr = MAP_FAILED THEN attached
                            ELSE attached \cup {addr}
             /\ IF ptr = None
                THEN /\ ipc' = shmctl_rmid(ipc, loc.id)
                     /\ trace' = Append(mapped, Called("shmctl", << loc.id >>, 0))
                     /\ shm_result' = "Err"
                     /\ pc' = "is_err"
                     /\ denied' = TRUE
                     /\ UNCHANGED loc
                ELSE /\ loc' = [loc EXCEPT !.newseg =
                                   Some(ShmSegment(loc.id, ptr[1], loc.shmseg_size))]
                     /\ trace' = mapped
                     /\ pc' = "insert"
                     /\ UNCHANGED << ipc, shm_result, denied >>
    /\ UNCHANGED << build, shmseg, call, entry, prev, high_water >>

\* Option_insert as it would be if the new value overwrote the old one
\* without dropping it
Option_insert_forget ==
    /\ pc = "insert"
    /\ shmseg' = loc.newseg
    /\ loc' = [loc EXCEPT !.newseg = None]
    /\ pc' = "XShmCreateImage"
    /\ UNCHANGED << build, call, shm_result, kernel, trace, history >>

(***************************************************************************)
(* shm_set, lines 145 and 147: Option::insert(value).  It assigns          *)
(* *self = Some(value), which first drops the value held before.           *)
(***************************************************************************)
Option_insert ==
    /\ pc = "insert"
    /\ IF shmseg = None
       THEN /\ shmseg' = loc.newseg
            /\ loc' = [loc EXCEPT !.newseg = None]
            /\ pc' = "XShmCreateImage"
       ELSE /\ pc' = "shmdt"
            /\ UNCHANGED << shmseg, loc >>
    /\ UNCHANGED << build, call, shm_result, kernel, trace, history >>

\* drop_shmdt as it would be if drop returned when shmdt fails
drop_shmdt_checked ==
    /\ pc = "shmdt"
    /\ LET ptr == shmseg[1].ptr
       IN  /\ trace' = Append(trace, Called("shmdt", << ptr >>,
                                     IF ptr \in attached THEN 0 ELSE -1))
           /\ attached' = attached \ {ptr}
           /\ IF ptr \in attached
              THEN /\ pc' = "shmctl"
                   /\ UNCHANGED << shmseg, loc >>
              ELSE /\ shmseg' = loc.newseg
                   /\ loc' = [loc EXCEPT !.newseg = None]
                   /\ pc' = IF loc.newseg = None THEN "dropped"
                            ELSE "XShmCreateImage"
    /\ UNCHANGED << build, call, shm_result, ipc, history >>

(***************************************************************************)
(* Drop for ShmSegment, line 237: shmdt(self.ptr), its result ignored.     *)
(* shmdt fails (EINVAL) when no segment is mapped at the address.          *)
(***************************************************************************)
drop_shmdt ==
    /\ pc = "shmdt"
    /\ LET ptr == shmseg[1].ptr
       IN  /\ trace' = Append(trace, Called("shmdt", << ptr >>,
                                     IF ptr \in attached THEN 0 ELSE -1))
           /\ attached' = attached \ {ptr}
    /\ pc' = "shmctl"
    /\ UNCHANGED << build, shmseg, call, loc, shm_result, ipc, history >>

\* drop_shmctl as it would be if drop only unmapped the segment
drop_shmctl_skipped ==
    /\ pc = "shmctl"
    /\ shmseg' = loc.newseg
    /\ loc' = [loc EXCEPT !.newseg = None]
    /\ pc' = IF loc.newseg = None THEN "dropped" ELSE "XShmCreateImage"
    /\ UNCHANGED << build, call, shm_result, kernel, trace, history >>

(***************************************************************************)
(* Drop for ShmSegment, line 240: shmctl(self.id, IPC_RMID, null).  The    *)
(* dropped value is then gone: insert stores the new segment in its place, *)
(* and the drop of the engine leaves nothing.                              *)
(***************************************************************************)
drop_shmctl ==
    /\ pc = "shmctl"
    /\ LET id == shmseg[1].id
       IN  /\ ipc' = shmctl_rmid(ipc, id)
           /\ trace' = Append(trace, Called("shmctl", << id >>, 0))
    /\ shmseg' = loc.newseg
    /\ loc' = [loc EXCEPT !.newseg = None]
    /\ pc' = IF loc.newseg = None THEN "dropped" ELSE "XShmCreateImage"
    /\ UNCHANGED << build, call, shm_result, attached, history >>

(***************************************************************************)
(* shm_set, lines 153-165: XShmCreateImage over the segment's address,     *)
(* with a zeroed XShmSegmentInfo (shmid 0, shmaddr null); the image it     *)
(* returns (null when Xlib cannot make one) is not looked at and shm_set   *)
(* returns Ok(()).                                                         *)
(***************************************************************************)
XShmCreateImage ==
    /\ pc = "XShmCreateImage"
    /\ \E image \in { NULL, ImageOf(0) } :
         trace' = Append(trace, Called("XShmCreateImage",
                           << shmseg[1].ptr, Args.width, Args.height,
                              0, NULL >>, image))
    /\ shm_result' = "Ok"
    /\ pc' = "is_err"
    /\ UNCHANGED << build, shmseg, call, loc, kernel, history >>

\* set_buffer_is_err as it would be if set_buffer tested is_ok in place of
\* is_err
set_buffer_is_ok ==
    /\ pc = "is_err"
    /\ pc' = IF shm_result = "Ok" THEN "XCreateImage" ELSE "return"
    /\ UNCHANGED << build, shmseg, call, loc, shm_result, kernel, trace, history >>

(***************************************************************************)
(* set_buffer, lines 125-127: fallback_set runs when shm_set returned Err. *)
(***************************************************************************)
set_buffer_is_err ==
    /\ pc = "is_err"
    /\ pc' = IF shm_result = "Err" THEN "XCreateImage" ELSE "return"
    /\ UNCHANGED << build, shmseg, call, loc, shm_result, kernel, trace, history >>

(***************************************************************************)
(* fallback_set, lines 171-182: XCreateImage over the caller's buffer with *)
(* bytes_per_line (width * 4) as i32, the product taken in u16.            *)
(***************************************************************************)
fallback_XCreateImage ==
    /\ pc = "XCreateImage"
    /\ LET stride == u16_mul(Args.width, 4, overflow_checks)
       IN  IF stride = None
           THEN /\ pc' = "panicked"
                /\ UNCHANGED << loc, trace >>
           ELSE \E image \in { NULL, ImageOf(1) } :
                  /\ trace' = Append(trace, Called("XCreateImage",
                         << Args.buffer[1], Args.buffer[2], Args.width,
                            Args.height, stride[1] >>, image))
                  /\ loc' = [loc EXCEPT !.image = image]
                  /\ pc' = "XPutImage"
    /\ UNCHANGED << build, shmseg, call, shm_result, kernel, history >>

(***************************************************************************)
(* fallback_set, lines 185-196: XPutImage of the image.  Xlib reads the    *)
(* image it is given: with a null image the call is undefined, and either  *)
(* faults or comes back.                                                   *)
(***************************************************************************)
fallback_XPutImage ==
    /\ pc = "XPutImage"
    /\ trace' = Append(trace, Called("XPutImage",
                         << loc.image, Args.width, Args.height >>, 0))
    /\ pc' \in IF loc.image = NULL THEN { "crashed", "XDestroyImage" }
               ELSE { "XDestroyImage" }
    /\ UNCHANGED << build, shmseg, call, loc, shm_result, kernel, history >>

(***************************************************************************)
(* fallback_set, lines 199-200: image->data = null, a write through the    *)
(* pointer XCreateImage returned, then XDestroyImage(image).               *)
(***************************************************************************)
fallback_XDestroyImage ==
    /\ pc = "XDestroyImage"
    /\ IF loc.image = NULL
       THEN /\ pc' = "crashed"
            /\ UNCHANGED trace
       ELSE /\ trace' = Append(trace, Called("XDestroyImage", << loc.image >>, 0))
            /\ pc' = "return"
    /\ UNCHANGED << build, shmseg, call, loc, shm_result, kernel, history >>

(***************************************************************************)
(* set_buffer, line 128: the call returns to its caller.                   *)
(***************************************************************************)
set_buffer_return ==
    /\ pc = "return"
    /\ pc' = "idle"
    /\ prev' = Some([size |-> FrameSize(Args.width, Args.height),
                     denied |-> xshm /\ shm_result = "Err"])
    /\ call' = None
    /\ loc' = NoLocals
    /\ shm_result' = ""
    /\ trace' = << >>
    /\ entry' = None
    /\ UNCHANGED << build, shmseg, kernel, denied, high_water >>

(***************************************************************************)
(* The engine is dropped, by its owner between two calls or by the         *)
(* unwinding of a panic: the drop glue of X11Impl drops xshm, and with it  *)
(* the ShmSegment in shmseg when there is one.                             *)
(***************************************************************************)
drop_X11Impl ==
    /\ pc \in { "idle", "panicked" }
    /\ pc' = IF shmseg = None THEN "dropped" ELSE "shmdt"
    /\ call' = None
    /\ loc' = NoLocals
    /\ shm_result' = ""
    /\ trace' = << >>
    /\ entry' = shmseg
    /\ UNCHANGED << build, shmseg, kernel, prev, denied, high_water >>

Next ==
    \/ set_buffer
    \/ shm_set_xshm
    \/ shm_set_size
    \/ shm_set_match
    \/ ShmSegment_new_shmget
    \/ ShmSegment_new_shmat
    \/ Option_insert
    \/ drop_shmdt
    \/ drop_shmctl
    \/ XShmCreateImage
    \/ set_buffer_is_err
    \/ fallback_XCreateImage
    \/ fallback_XPutImage
    \/ fallback_XDestroyImage
    \/ set_buffer_return
    \/ drop_X11Impl

Spec == Init /\ [][Next]_vars

(***************************************************************************)
(* set_buffer, lines 124-128, and the drops are straight-line code run by  *)
(* the calling thread: once a call has started, its next step is taken.    *)
(* When the caller starts a call, or drops the engine, is the caller's     *)
(* choice and is under no fairness.                                        *)
(***************************************************************************)
Step ==
    \/ shm_set_xshm
    \/ shm_set_size
    \/ shm_set_match
    \/ ShmSegment_new_shmget
    \/ ShmSegment_new_shmat
    \/ Option_insert
    \/ drop_shmdt
    \/ drop_shmctl
    \/ XShmCreateImage
    \/ set_buffer_is_err
    \/ fallback_XCreateImage
    \/ fallback_XPutImage
    \/ fallback_XDestroyImage
    \/ set_buffer_return

FairSpec == Spec /\ WF_vars(Step)

(***************************************************************************)
(* What the claims speak of.                                               *)
(***************************************************************************)
\* the positions in trace of the calls of the named library function
Calls(name) == { i \in 1..Len(trace) : trace[i].call = name }

\* the fast path met a failure: no extension, shmget or shmat or
\* XShmCreateImage reporting failure
FastPathFailed ==
    \/ ~xshm
    \/ \E i \in Calls("shmget") : trace[i].ret = -1
    \/ \E i \in Calls("shmat") : trace[i].ret = MAP_FAILED
    \/ \E i \in Calls("XShmCreateImage") : trace[i].ret = NULL

\* the caller's buffer holds width * height pixels
ExactBuffer == Args.buffer = UsizeMulWide(Usize(Args.width), Args.height)

\* C1: when set_buffer returns, fallback_set has run exactly once, over the
\* caller's buffer, width and height, if the fast path failed at any step
\* (no extension, allocation, mapping, image creation), and has not run if
\* the fast path succeeded.  Stated for the calls with a buffer of
\* width * height pixels in which shmat did not fail (those are C7's).  The
\* code does not satisfy this.
C1_FallbackIffFastPathFailed ==
    (/\ pc = "return"
     /\ ExactBuffer
     /\ \A i \in Calls("shmat") : trace[i].ret # MAP_FAILED) =>
        IF FastPathFailed
        THEN /\ Cardinality(Calls("XCreateImage")) = 1
             /\ \A i \in Calls("XCreateImage") :
                    SubSeq(trace[i].arg, 1, 4) =
                        << Args.buffer[1], Args.buffer[2], Args.width, Args.height >>
        ELSE Calls("XCreateImage") = {}

\* C2: when set_buffer returns after shm_set returned Ok, the caller's pixels
\* are in the held segment and the image XShmCreateImage made over it has
\* been given to XShmPutImage; and every call with a non-zero area has
\* issued a draw request on one of the two paths.  Stated for the calls with
\* a buffer of width * height pixels in which no library call failed.  The
\* code does not satisfy this.
C2_FastPathSuccessHasDrawn ==
    (pc = "return" /\ ExactBuffer /\ ~FastPathFailed) =>
        /\ shm_result = "Ok" =>
              /\ shmseg # None
              /\ ipc[shmseg[1].id + 1].data = Some(Args.buffer)
              /\ \E i \in Calls("XShmCreateImage"), j \in Calls("XShmPutImage") :
                    i < j /\ trace[i].ret # NULL /\ trace[j].arg[1] = trace[i].ret
        /\ (Args.width > 0 /\ Args.height > 0) =>
              Calls("XShmPutImage") \cup Calls("XPutImage") # {}

\* C3: an engine built without the extension (xshm is None) never calls
\* shmget, in any operation: no segment is ever allocated or held.
C3_NoAllocationWithoutXshm ==
    ~xshm => Calls("shmget") = {} /\ ipc = << >> /\ shmseg = None

\* an engine without the extension has returned from one set_buffer and has
\* drawn a second frame through the fallback
C3_Witness ==
    /\ ~xshm
    /\ pc = "return"
    /\ prev # None
    /\ Calls("XPutImage") # {}

\* C4: with the extension, (a) a set_buffer whose frame size equals that of
\* the preceding set_buffer, in which ShmSegment::new did not fail, calls
\* shmget at no point; (b) a set_buffer that returns, needed more than the
\* capacity held at its start and was given its new segment has called
\* shmget once and shmctl(IPC_RMID) once, on the id held at its start, which
\* it holds no more.
C4_ReuseAndReplace ==
    /\ (/\ xshm
        /\ call # None
        /\ prev # None
        /\ ~prev[1].denied
        /\ prev[1].size = FrameSize(Args.width, Args.height))
       => Calls("shmget") = {}
    /\ (/\ pc = "return"
        /\ entry # None
        /\ UsizeLt(entry[1].size, loc.shmseg_size)
        /\ shm_result = "Ok")
       => /\ Cardinality(Calls("shmget")) = 1
          /\ Cardinality(Calls("shmctl")) = 1
          /\ \A i \in Calls("shmctl") : trace[i].arg = << entry[1].id >>
          /\ ipc[entry[1].id + 1].rmid = 1
          /\ shmseg # None
          /\ shmseg[1].id # entry[1].id

\* a set_buffer returns that replaced the segment held at its start by a
\* larger one: one shmget, and the old id released
C4_Witness ==
    /\ pc = "return"
    /\ shm_result = "Ok"
    /\ prev # None
    /\ entry # None
    /\ UsizeLt(entry[1].size, loc.shmseg_size)
    /\ Cardinality(Calls("shmget")) = 1
    /\ ipc[entry[1].id + 1].rmid = 1

\* a set_buffer of the same frame size as the one before it returns without
\* having called shmget
C4_WitnessSameSize ==
    /\ pc = "return"
    /\ shm_result = "Ok"
    /\ prev # None
    /\ ~prev[1].denied
    /\ prev[1].size = FrameSize(Args.width, Args.height)
    /\ Calls("shmget") = {}

\* C5: with the extension and no ShmSegment::new ever failed, (a) between
\* calls
\* the held segment's size is the largest frame size computed so far; (b) a
\* set_buffer whose frame size is at most the capacity held at its start
\* keeps that very segment (same id, pointer, size) and calls none of
\* shmget, shmdt, shmctl; (c) the capacity held during a call is never less
\* than the capacity held at its start.
C5_HighWaterMark ==
    /\ (xshm /\ ~denied /\ high_water # None /\ pc \in { "return", "idle" })
       => shmseg # None /\ shmseg[1].size = high_water[1]
    /\ (/\ call # None
        /\ entry # None
        /\ UsizeLe(FrameSize(Args.width, Args.height), entry[1].size))
       => /\ shmseg = entry
          /\ Calls("shmget") \cup Calls("shmdt") \cup Calls("shmctl") = {}
    /\ (call # None /\ entry # None)
       => shmseg # None /\ UsizeLe(entry[1].size, shmseg[1].size)

\* the last call of 10x10, 10x10, 20x20, 5x5: a 5x5 frame returns on the
\* 1600-byte segment, the second one ever allocated, without a shmget
C5_Witness ==
    /\ pc = "return"
    /\ xshm
    /\ ~denied
    /\ shmseg # None
    /\ Args.width = 5 /\ Args.height = 5
    /\ prev # None /\ prev[1].size = Usize(1600)
    /\ shmseg = entry
    /\ shmseg[1].size = Usize(1600)
    /\ high_water = Some(Usize(1600))
    /\ Len(ipc) = 2
    /\ Calls("shmget") = {}

\* C6, as claimed: between calls, a held segment's size is at least the
\* frame size of the preceding set_buffer, also when that call was denied
\* its allocation.  The code does not satisfy this.
C6_CapacityCoversLastRequest ==
    (pc = "idle" /\ shmseg # None /\ prev # None)
       => UsizeLe(prev[1].size, shmseg[1].size)

\* C6, amended: when shm_set has returned Ok the held segment's size is at
\* least the frame size of that call, and between calls a held segment's
\* size is at least the frame size of the preceding set_buffer unless that
\* call was denied its allocation.
C6_CapacityCoversLastGranted ==
    /\ (pc \in { "is_err", "return" } /\ shm_result = "Ok")
       => shmseg # None /\ UsizeLe(loc.shmseg_size, shmseg[1].size)
    /\ (pc = "idle" /\ shmseg # None /\ prev # None /\ ~prev[1].denied)
       => UsizeLe(prev[1].size, shmseg[1].size)

\* after a denied allocation, a later set_buffer was granted a segment of
\* exactly its frame size
C6_Witness ==
    /\ pc = "idle"
    /\ denied
    /\ shmseg # None
    /\ prev # None
    /\ ~prev[1].denied
    /\ prev[1].size = shmseg[1].size
    /\ Len(ipc) >= 2

\* C7: once shmat has returned its failure value, ShmSegment::new has
\* returned an error (so shm_set has), the id shmget gave has been removed,
\* and no segment value with the failed mapping is held or about to be
\* stored.  The code does not satisfy this.
C7_MapFailureReleases ==
    \A i \in Calls("shmat") :
        trace[i].ret = MAP_FAILED =>
            /\ shm_result = "Err"
            /\ ipc[trace[i].arg[1] + 1].rmid = 1
            /\ shmseg = None \/ shmseg[1].ptr # MAP_FAILED
            /\ loc.newseg = None \/ loc.newseg[1].ptr # MAP_FAILED

\* C8: no id is ever removed twice, and once the engine has been dropped
\* every id shmget returned has been removed exactly once.
C8_ReleasedExactlyOnce ==
    /\ \A i \in 1..Len(ipc) : ipc[i].rmid <= 1
    /\ pc = "dropped" => \A i \in 1..Len(ipc) : ipc[i].rmid = 1

\* the engine has been dropped after at least two allocations, a denied
\* allocation, and with a segment whose mapping had failed
C8_Witness ==
    /\ pc = "dropped"
    /\ Len(ipc) >= 2
    /\ denied
    /\ \E i \in Calls("shmdt") : trace[i].ret = -1

\* the ids the engine has in hand: that of the held segment, that of the
\* segment ShmSegment::new is making or has made
Owned ==
    { shmseg[j].id + 1 : j \in 1..Len(shmseg) }
        \cup { loc.newseg[j].id + 1 : j \in 1..Len(loc.newseg) }
        \cup (IF pc = "shmat" THEN { loc.id + 1 } ELSE {})

\* C9, as claimed: at every point at most one segment is live.  The code
\* does not satisfy this.
C9_AtMostOneLive ==
    Cardinality(Live) <= 1

\* C9, amended: every live segment is in the engine's hands; at most one is
\* live except while a too-small segment is being replaced, from the shmget
\* of the replacement to the shmctl of the old one, when the two of them
\* are.
C9_AtMostOneHeld ==
    /\ Live \subseteq Owned
    /\ Len(shmseg) <= 1
    /\ Cardinality(Live) <= 2
    /\ Cardinality(Live) = 2 =>
          /\ pc \in { "shmat", "insert", "shmdt", "shmctl" }
          /\ call # None
          /\ shmseg = entry
          /\ shmseg # None
          /\ UsizeLt(shmseg[1].size, loc.shmseg_size)

\* the replacement is mapped and the old segment unmapped but not yet removed
C9_Witness ==
    /\ pc = "shmctl"
    /\ Cardinality(Live) = 2
    /\ loc.newseg # None

\* C10: a segment is removed (shmctl) only right after its shmdt; every
\* shmdt, whatever it returned, is followed by the shmctl of the same
\* segment; once a held segment is gone, by replacement or by the drop of
\* the engine, both calls have been made in that order.
C10_UnmapThenRelease ==
    /\ pc = "shmctl" =>
          /\ trace # << >>
          /\ trace[Len(trace)].call = "shmdt"
          /\ trace[Len(trace)].arg = << shmseg[1].ptr >>
    /\ \A i \in Calls("shmctl") :
          (entry # None /\ trace[i].arg = << entry[1].id >>) =>
              /\ i > 1
              /\ trace[i - 1].call = "shmdt"
              /\ trace[i - 1].arg = << entry[1].ptr >>
    /\ \A i \in Calls("shmdt") :
          \/ i = Len(trace) /\ pc = "shmctl"
          \/ /\ i < Len(trace)
             /\ trace[i + 1].call = "shmctl"
             /\ trace[i + 1].arg = << entry[1].id >>
    /\ (entry # None /\ (pc = "dropped" \/ (call # None /\ shmseg # entry))) =>
          \E i \in Calls("shmdt") :
              /\ trace[i].arg = << entry[1].ptr >>
              /\ i < Len(trace)
              /\ trace[i + 1] = Called("shmctl", << entry[1].id >>, 0)

\* a segment whose shmdt failed has been removed all the same, in a
\* replacement
C10_Witness ==
    /\ call # None
    /\ entry # None
    /\ shmseg # entry
    /\ \E i \in Calls("shmdt") :
          /\ trace[i].ret = -1
          /\ i < Len(trace)
          /\ trace[i + 1].call = "shmctl"

\* the engine has been dropped with a segment in it
C10_WitnessDrop ==
    /\ pc = "dropped"
    /\ entry # None
    /\ Calls("shmctl") # {}

\* a frame of no pixels: width or height is 0
ZeroArea == Args.width = 0 \/ Args.height = 0

\* C11: a set_buffer with width = 0 or height = 0 does nothing, with or
\* without the extension: it calls no shared-memory primitive (shmget,
\* shmat), makes no image (XShmCreateImage, XCreateImage), sends no draw
\* request (XPutImage) and ends in neither a panic nor a crash.
C11_ZeroAreaIsNoOp ==
    (call # None /\ ZeroArea /\ ExactBuffer) =>
        /\ Calls("shmget") = {}
        /\ Calls("shmat") = {}
        /\ Calls("XShmCreateImage") = {}
        /\ Calls("XCreateImage") = {}
        /\ Calls("XPutImage") = {}
        /\ pc \notin { "panicked", "crashed" }

\* the requests of one fallback_set over the caller's buffer: the image is
\* made from the buffer, width and height, that image is drawn, that image
\* is destroyed
FallbackRequests(n) ==
    /\ n >= 1 =>
          /\ trace[1].call = "XCreateImage"
          /\ trace[1].arg[1] = Args.buffer[1]
          /\ trace[1].arg[2] = Args.buffer[2]
          /\ trace[1].arg[3] = Args.width
          /\ trace[1].arg[4] = Args.height
    /\ n >= 2 =>
          /\ trace[2].call = "XPutImage"
          /\ trace[2].arg[1] = trace[1].ret
    /\ n >= 3 =>
          /\ trace[3].call = "XDestroyImage"
          /\ trace[3].arg[1] = trace[1].ret

\* C12: without the extension, every set_buffer over a buffer of
\* width * height pixels sends XCreateImage over the caller's buffer, then
\* XPutImage of that image, then XDestroyImage of that image, each exactly
\* once and in this order: the requests sent so far are always a prefix of
\* the three, and a call that has ended (returned, panicked or crashed) has
\* sent all three, so no image outlives the call.  Stated for the calls in
\* which XCreateImage did not return null (those are C13's).
C12_CreatePutDestroy ==
    (/\ ~xshm
     /\ call # None
     /\ ExactBuffer
     /\ \A i \in Calls("XCreateImage") : trace[i].ret # NULL) =>
        /\ Len(trace) <= 3
        /\ FallbackRequests(Len(trace))
        /\ pc \in { "return", "panicked", "crashed" } => Len(trace) = 3

\* C13: when XCreateImage returns a null image, set_buffer does not crash:
\* it sends neither XPutImage nor XDestroyImage with the null image, does
\* not write through it, and the call ends by returning.
C13_NullImageHandled ==
    (call # None /\ \E i \in Calls("XCreateImage") : trace[i].ret = NULL) =>
        /\ pc # "crashed"
        /\ \A j \in Calls("XPutImage") : trace[j].arg[1] # NULL
        /\ \A j \in Calls("XDestroyImage") : trace[j].arg[1] # NULL

\* the pixels a frame of Args.width by Args.height describes
Pixels == UsizeMulWide(Usize(Args.width), Args.height)

\* C14: a set_buffer whose buffer does not hold width * height pixels is
\* refused before any image is made, so that no XCreateImage and no
\* XPutImage ever describes more pixels than the caller's buffer holds.
\* Stated for the buffers shorter than width * height pixels, the ones a
\* request would read past.
C14_BufferLengthChecked ==
    (call # None /\ UsizeLt(Args.buffer, Pixels)) =>
        /\ Calls("XCreateImage") = {}
        /\ Calls("XShmCreateImage") = {}
        /\ Calls("XPutImage") = {}
        /\ pc # "return"

\* width * height * 4 does not fit the build's usize
SizeOverflows == shmseg_size_of(Args.width, Args.height, usize_bits) = None

\* C15: when width * height * 4 overflows usize, set_buffer ends in a panic
\* and does not fall back, with or without the extension: it never returns,
\* and it has asked for no segment and sent no image or draw request.
C15_OverflowIsFatal ==
    (call # None /\ SizeOverflows /\ ExactBuffer) =>
        /\ pc # "return"
        /\ Calls("shmget") = {}
        /\ Calls("XShmCreateImage") = {}
        /\ Calls("XCreateImage") = {}
        /\ Calls("XPutImage") = {}

\* C16: when XShmCreateImage is called over the held segment, the X server
\* has that segment attached (XShmAttach has registered its id), and the
\* XShmSegmentInfo passed carries the segment's id and address.  Stated for
\* the calls with a buffer of width * height pixels over a segment that
\* shmat has mapped (a failed shmat is C7's).
C16_SegmentRegistered ==
    (/\ call # None
     /\ ExactBuffer
     /\ shmseg # None
     /\ shmseg[1].ptr # MAP_FAILED) =>
        \A i \in Calls("XShmCreateImage") :
            /\ ipc[shmseg[1].id + 1].xserver
            /\ trace[i].arg[4] = shmseg[1].id
            /\ trace[i].arg[5] = shmseg[1].ptr

\* C17: no step of any set_buffer, whether it ends in Ok, in the fallback
\* or in a panic, changes whether the engine has the extension (xshm) or
\* its window handle, display handle, gc, visual or depth, and
\* XShmQueryExtension is never called again: of the engine's fields only the
\* held segment can change.
C17_OnlySegmentChanges ==
    /\ [][xshm' = xshm /\ handles' = handles]_vars
    /\ [](Calls("XShmQueryExtension") = {})

\* a set_buffer has put a segment in place of the one held at its start,
\* after an earlier set_buffer returned
C17_Witness ==
    /\ xshm
    /\ pc = "return"
    /\ prev # None
    /\ entry # None
    /\ shmseg # entry

\* a system primitive or an Xlib request of the current call has failed
PrimitiveFailed ==
    \/ \E i \in Calls("shmget") : trace[i].ret = -1
    \/ \E i \in Calls("shmat") : trace[i].ret = MAP_FAILED
    \/ \E i \in Calls("XShmCreateImage") : trace[i].ret = NULL
    \/ \E i \in Calls("XCreateImage") : trace[i].ret = NULL

\* a set_buffer is under way on an engine with the extension, over a buffer
\* of width * height pixels whose size in bytes fits usize, and nothing it
\* has called has failed
ValidPresent ==
    /\ xshm
    /\ call # None
    /\ ExactBuffer
    /\ ~SizeOverflows
    /\ ~PrimitiveFailed

\* C18: with the extension, a set_buffer over a buffer of width * height
\* pixels (width * height * 4 fitting usize) in which shmget, shmat and the
\* Xlib requests succeed neither panics nor crashes, and once started it
\* reaches its return.
C18_PresentReturns ==
    /\ [](ValidPresent => pc \notin { "panicked", "crashed" })
    /\ (ValidPresent ~> (pc = "return" \/ PrimitiveFailed))

\* such a set_buffer has allocated a segment, dropped the one it held and
\* reached its return with Ok
C18_Witness ==
    /\ ValidPresent
    /\ pc = "return"
    /\ shm_result = "Ok"
    /\ Calls("shmget") # {}
    /\ Calls("shmctl") # {}

\* the current set_buffer asked for a larger segment than the one it held at
\* its start, and ShmSegment::new returned Err
LargerDenied ==
    /\ xshm
    /\ call # None
    /\ entry # None
    /\ shm_result = "Err"

\* C19: (a) when the allocation of a larger segment is denied during a
\* set_buffer, the segment held at the start of the call is still held, with
\* the same id, address and size, still mapped as it was and not removed,
\* and the call has called neither shmdt nor shmctl on it; (b) a later
\* set_buffer whose frame size fits that segment calls no shmget; (c)
\* whenever a segment is held, its recorded size is the size its id was
\* allocated with by shmget.
C19_DeniedKeepsSegment ==
    /\ LargerDenied =>
          /\ shmseg = entry
          /\ ipc[entry[1].id + 1].rmid = 0
          /\ ipc[entry[1].id + 1].size = entry[1].size
          /\ entry[1].ptr # MAP_FAILED => entry[1].ptr \in attached
          /\ \A i \in Calls("shmdt") \cup Calls("shmctl") :
                trace[i].arg[1] \notin { entry[1].id, entry[1].ptr }
    /\ (/\ xshm
        /\ call # None
        /\ prev # None
        /\ prev[1].denied
        /\ entry # None
        /\ UsizeLe(FrameSize(Args.width, Args.height), entry[1].size))
       => Calls("shmget") = {} /\ shmseg = entry
    /\ (xshm /\ shmseg # None) =>
          /\ ipc[shmseg[1].id + 1].rmid = 0
          /\ ipc[shmseg[1].id + 1].size = shmseg[1].size

\* the allocation of a larger segment was denied in the last set_buffer, and
\* the current one, whose frame fits the segment still held, has reused it
\* and reached its return with Ok
C19_Witness ==
    /\ xshm
    /\ pc = "return"
    /\ shm_result = "Ok"
    /\ prev # None
    /\ prev[1].denied
    /\ entry # None
    /\ UsizeLt(entry[1].size, prev[1].size)
    /\ shmseg = entry
    /\ Calls("XShmCreateImage") # {}

\* C20: the stride fallback_set passes to XCreateImage is 4 * width as an
\* integer, for every u16 width: the multiplication neither wraps nor
\* panics (a panic after shm_set has returned Err is one of fallback_set).
\* Stated for the frames whose size in bytes fits usize, over a buffer of
\* width * height pixels.
C20_StrideIsFourTimesWidth ==
    (call # None /\ ExactBuffer /\ ~SizeOverflows) =>
        /\ \A i \in Calls("XCreateImage") : trace[i].arg[5] = 4 * Args.width
        /\ ~(pc = "panicked" /\ shm_result = "Err")

====
